---- MODULE Spec2Model ----
(***************************************************************************)
(* A model of src/src/use-stepper.ts: the step graph (Steps / Step), the   *)
(* first-step resolver calculateFirstStep, the flattener                    *)
(* generateArrayFromTree and the useStepper hook (goToNextStep,             *)
(* goToPrevStep).                                                           *)
(*                                                                         *)
(* A Steps object {initialStep, [name]: Step} is the record                 *)
(*   [initialStep |-> name, steps |-> [name |-> Step]]                      *)
(* and a Step is                                                            *)
(*   [next, isDone, shouldSkip, canGoBack, childSteps]                      *)
(* where childSteps is <<>> (absent) or <<Steps>> (the nested graph), an    *)
(* absent optional field is "absent" / "undefined", and next: null is NULL. *)
(* Addresses are strings, built with string concatenation as the code does. *)
(***************************************************************************)
EXTENDS Integers, Sequences, FiniteSets, TLC

VARIABLES
    steps,          \* useStepper's argument `steps` (read-only input)
    initialStep,    \* useStepper's argument `initialStep` (the start name)
    flag,           \* external state read by the "env" predicates
    stepsSequence,  \* const stepsSequence = generateArrayFromTree(steps)
    currentStep,    \* useState<SequentialStep | null>
    effect,         \* the useEffect promise: "idle" (not rendered yet),
                    \* "pending", "resolved", "rejected"
    firstStep,      \* the address calculateFirstStep resolved with
    calls,          \* goToNextStep / goToPrevStep calls suspended at an await
    last            \* history: the navigation call that completed last

vars == <<steps, initialStep, flag, stepsSequence, currentStep, effect,
          firstStep, calls, last>>

---------------------------------------------------------------------------
(* Bounds of the model *)

\* steps (containers included) of a graph, in the resolver's specification
FirstSteps == 3
\* steps (containers included) of a graph, in the flattener's specification
TreeSteps == 4
\* steps (containers included) of a graph, in the hook's specification
NavSteps == 3
\* navigation calls that may be suspended at an await at the same time
MaxInFlight == 1
\* shouldSkip predicates one call may see resolve true and still go on (more
\* than any walk over distinct addresses needs; a walk that comes back to a
\* record it has been on stays suspended there)
MaxTrace == 3

---------------------------------------------------------------------------
(* Data model *)

NAME_ADDRESS_DELIMITER == "/"

\* next: null.  Lines 82 and 125 test `next ?`, so '' is taken as null too.
NULL == ""

\* currentStep before the first setCurrentStep: useState(null)
Null == [null |-> TRUE]

\* what a rejected calculateFirstStep promise carries (a TypeError)
Failure == "<TypeError>"

\* what a rejected promise carries when an isDone or shouldSkip predicate
\* raised or rejected: the predicate's own error
PredicateError == "<PredicateError>"

\* the promise of calculateFirstStep was rejected with `result`
IsRejection(result) == result \in {Failure, PredicateError}

\* The value an isDone / shouldSkip field resolves to when the code awaits it.
\* "absent": the optional field is not set and the code takes false.
\* "throws": the predicate raises or rejects and the await gives no value
\* (the code after the await does not run; see Raises).
Eval(pred) ==
    CASE pred = "absent" -> FALSE
      [] pred = "true"   -> TRUE
      [] pred = "false"  -> FALSE
      [] pred = "env"    -> flag
      [] pred = "throws" -> FALSE

\* `await pred()` raises: lines 77, 78, 164 and 181 have no try / catch
Raises_swallowed(pred) == FALSE

Raises(pred) == pred = "throws"

\* history: a navigation call that has come to its end.  from: the
\* currentStep it was issued with; trace: the indices whose shouldSkip it saw
\* resolve to true; wrote: the index it gave to setCurrentStep, or 0
Completed(kind, from, trace, wrote) ==
    [kind |-> kind, from |-> from, trace |-> trace, wrote |-> wrote]

\* history: a navigation call whose promise was rejected because the
\* shouldSkip of the record at index `failed` raised
Rejected(kind, from, trace, failed) ==
    [kind |-> kind, from |-> from, trace |-> trace, wrote |-> 0,
     failed |-> failed]

HasKey(subtree, stepName) == stepName \in DOMAIN subtree.steps

---------------------------------------------------------------------------
(* calculateFirstStep, lines 71-88 *)

\* line 73: the default of the parameter initialStep
DefaultStart(graph) == graph.initialStep

\* line 79: if (isStepDone || shouldSkipStep)
MoveOn_onlyDone(isStepDone, shouldSkipStep) == isStepDone

MoveOn(isStepDone, shouldSkipStep) == isStepDone \/ shouldSkipStep

\* line 82, no next: "we must be in the end, so return this one"
EndOfChain_next(stepName, next) == next

EndOfChain(stepName, next) == stepName

\* line 86: `${stepName}${NAME_ADDRESS_DELIMITER}${await calculateFirstStep(childSteps)}`
AddressUnder_child(stepName, sub) == sub

AddressUnder(stepName, sub) ==
    IF IsRejection(sub) THEN sub ELSE stepName \o NAME_ADDRESS_DELIMITER \o sub

\* line 85: step is not done, stay here: descend only if there are childSteps
Descends_never(step) == FALSE

Descends(step) == step.childSteps # <<>>

RECURSIVE calculateFirstStep(_, _)
calculateFirstStep(graph, start) ==
    IF ~HasKey(graph, start)
    THEN Failure    \* line 75 destructures undefined
    ELSE
      LET step == graph.steps[start]
          stepName == start
          isStepDone == Eval(step.isDone)
          shouldSkipStep == Eval(step.shouldSkip)
      IN  IF Raises(step.isDone)
          THEN PredicateError     \* line 77: await isDone()
          ELSE IF Raises(step.shouldSkip)
          THEN PredicateError     \* line 78: await shouldSkip()
          ELSE IF MoveOn(isStepDone, shouldSkipStep)
          THEN IF step.next # NULL
               THEN calculateFirstStep(graph, step.next)
               ELSE EndOfChain(stepName, step.next)
          ELSE IF Descends(step)
               THEN AddressUnder(stepName,
                      calculateFirstStep(step.childSteps[1],
                                         DefaultStart(step.childSteps[1])))
               ELSE stepName

---------------------------------------------------------------------------
(* generateArrayFromTree, lines 96-131 *)

\* canGoBack ?? defaultCanGoBack, line 111
CanGoBackOr_or(canGoBack, defaultCanGoBack) ==
    canGoBack = "true" \/ defaultCanGoBack

CanGoBackOr(canGoBack, defaultCanGoBack) ==
    IF canGoBack = "undefined" THEN defaultCanGoBack ELSE canGoBack = "true"

\* a record whose address leaves out the enclosing containers
SequentialStep_noPrefix(result, addressCollector, stepName, step) ==
    [address    |-> stepName,
     canGoBack  |-> CanGoBackOr(step.canGoBack, Len(result) # 0),
     shouldSkip |-> step.shouldSkip]

\* lines 105-114: the record pushed for a step without childSteps
SequentialStep(result, addressCollector, stepName, step) ==
    LET defaultCanGoBack == Len(result) # 0
    IN  [address    |-> addressCollector \o stepName,
         canGoBack  |-> CanGoBackOr(step.canGoBack, defaultCanGoBack),
         shouldSkip |-> step.shouldSkip]

\* line 108: ignore "container" steps with childSteps
SavesNode_always(step) == TRUE

SavesNode(step) == step.childSteps = <<>>

\* recurTraverse pushes to the enclosing `result`; here it takes the array
\* and gives back the array after its pushes.
RECURSIVE recurTraverse(_, _, _, _)
recurTraverse(result, stepName, subtree, addressCollector) ==
    IF ~HasKey(subtree, stepName)
    THEN result     \* base case, lines 101-103
    ELSE
      LET step == subtree.steps[stepName]
          saved == IF SavesNode(step)
                   THEN Append(result,
                          SequentialStep(result, addressCollector, stepName, step))
                   ELSE result
          left == IF step.childSteps # <<>>
                  THEN recurTraverse(saved, step.childSteps[1].initialStep,
                         step.childSteps[1],
                         addressCollector \o stepName \o NAME_ADDRESS_DELIMITER)
                  ELSE saved
      IN  IF step.next # NULL
          THEN recurTraverse(left, step.next, subtree, addressCollector)
          ELSE left

\* recurTraverse with steps 2 and 3 exchanged: next before childSteps
RECURSIVE recurTraverse_nextFirst(_, _, _, _)
recurTraverse_nextFirst(result, stepName, subtree, addressCollector) ==
    IF ~HasKey(subtree, stepName)
    THEN result
    ELSE
      LET step == subtree.steps[stepName]
          saved == IF SavesNode(step)
                   THEN Append(result,
                          SequentialStep(result, addressCollector, stepName, step))
                   ELSE result
          right == IF step.next # NULL
                   THEN recurTraverse_nextFirst(saved, step.next, subtree,
                                                addressCollector)
                   ELSE saved
      IN  IF step.childSteps # <<>>
          THEN recurTraverse_nextFirst(right, step.childSteps[1].initialStep,
                 step.childSteps[1],
                 addressCollector \o stepName \o NAME_ADDRESS_DELIMITER)
          ELSE right

generateArrayFromTree_nextFirst(graph) ==
    recurTraverse_nextFirst(<<>>, graph.initialStep, graph, "")

generateArrayFromTree(graph) ==
    recurTraverse(<<>>, graph.initialStep, graph, "")

---------------------------------------------------------------------------
(* useStepper: lookups, lines 143-144, 158-160, 174-176 *)

\* stepsSequence.findIndex(step => step.address === address), 1-based;
\* 0 stands for findIndex's -1
findIndex(seq, address) ==
    IF \E i \in 1..Len(seq) : seq[i].address = address
    THEN CHOOSE i \in 1..Len(seq) :
           /\ seq[i].address = address
           /\ \A j \in 1..(i - 1) : seq[j].address # address
    ELSE 0

\* a lookup that falls back on the first record
findStepByAddress_orFirst(seq, address) ==
    IF findIndex(seq, address) # 0 THEN seq[findIndex(seq, address)]
    ELSE IF seq = <<>> THEN Null ELSE seq[1]

\* findStepByAddress(address) || null
findStepByAddress(seq, address) ==
    IF findIndex(seq, address) = 0 THEN Null ELSE seq[findIndex(seq, address)]

\* a lookup that takes a current step that is not set for the first record
IndexOfStep_orFirst(seq, step) ==
    IF step = Null THEN (IF seq = <<>> THEN 0 ELSE 1)
    ELSE findIndex(seq, step.address)

\* _currentStep?.address: undefined, which equals no record's address
IndexOfStep(seq, step) ==
    IF step = Null THEN 0 ELSE findIndex(seq, step.address)

---------------------------------------------------------------------------
(* The step graphs the specifications start from: every graph of a given   *)
(* number of steps whose steps carry one of the given attribute            *)
(* combinations.  The keys of a graph are "1", "2", ... chained by next in *)
(* that order, and initialStep is any key.                                 *)

Attr(isDone, shouldSkip, canGoBack) ==
    [isDone |-> isDone, shouldSkip |-> shouldSkip, canGoBack |-> canGoBack]

\* A graph from a chain of step bodies (attributes and childSteps)
MkGraph(chain, first) ==
    [initialStep |-> ToString(first),
     steps |-> [name \in {ToString(i) : i \in 1..Len(chain)} |->
                  LET i == CHOOSE k \in 1..Len(chain) : ToString(k) = name
                  IN  [next       |-> IF i < Len(chain) THEN ToString(i + 1) ELSE NULL,
                       isDone     |-> chain[i].isDone,
                       shouldSkip |-> chain[i].shouldSkip,
                       canGoBack  |-> chain[i].canGoBack,
                       childSteps |-> chain[i].childSteps]]]

RECURSIVE ChainsOf(_, _), BodiesOf(_, _), GraphsOf(_, _)

\* the graphs of exactly w steps, nested ones counted
GraphsOf(w, attrs) ==
    {MkGraph(pair[1], pair[2]) :
       pair \in UNION {{<<c, j>> : j \in 1..Len(c)} : c \in ChainsOf(w, attrs)}}

\* a step and all that is nested in it, w steps together
BodiesOf(w, attrs) ==
    IF w = 1
    THEN {[isDone |-> a.isDone, shouldSkip |-> a.shouldSkip,
           canGoBack |-> a.canGoBack, childSteps |-> <<>>] : a \in attrs}
    ELSE {[isDone |-> p[1].isDone, shouldSkip |-> p[1].shouldSkip,
           canGoBack |-> p[1].canGoBack, childSteps |-> <<p[2]>>] :
            p \in attrs \X GraphsOf(w - 1, attrs)}

\* the chains of siblings of w steps together
ChainsOf(w, attrs) ==
    IF w = 0
    THEN {<<>>}
    ELSE UNION {{<<p[1]>> \o p[2] :
                   p \in BodiesOf(k, attrs) \X ChainsOf(w - k, attrs)} :
                k \in 1..w}

\* `graph` is one of the graphs of at most n steps
IsGraphUpTo(graph, n, attrs) ==
    \E w \in 1..n :
        \E chain \in ChainsOf(w, attrs) :
            \E first \in 1..Len(chain) : graph = MkGraph(chain, first)

---------------------------------------------------------------------------
(* The hook *)

\* useStepper is about to be called with (steps, initialStep)
InitWith(n, attrs) ==
    /\ IsGraphUpTo(steps, n, attrs)
    /\ initialStep \in DOMAIN steps.steps
    /\ flag = FALSE
    /\ stepsSequence = <<>>
    /\ currentStep = Null
    /\ effect = "idle"
    /\ firstStep = ""
    /\ calls = <<>>
    /\ last = Completed("none", Null, <<>>, 0)

\* lines 142-155, the first render: stepsSequence is computed, currentStep is
\* null and the effect starts calculateFirstStep
Render ==
    /\ effect = "idle"
    /\ stepsSequence' = generateArrayFromTree(steps)
    /\ effect' = "pending"
    /\ UNCHANGED <<steps, initialStep, flag, currentStep, firstStep, calls, last>>

\* lines 147-155: the promise of calculateFirstStep(steps, initialStep) settles
FirstStepResolved ==
    /\ effect = "pending"
    /\ LET address == calculateFirstStep(steps, initialStep)
       IN  IF IsRejection(address)
           THEN /\ effect' = "rejected"     \* .catch: console.error
                /\ UNCHANGED <<currentStep, firstStep>>
           ELSE /\ effect' = "resolved"
                /\ firstStep' = address
                /\ currentStep' = findStepByAddress(stepsSequence, address)
    /\ UNCHANGED <<steps, initialStep, flag, stepsSequence, calls, last>>

---------------------------------------------------------------------------
(* goToNextStep and goToPrevStep, lines 157-188.  A call runs to its first *)
(* await in one step (GoToNextStep, GoToPrevStep) and from one await to    *)
(* the next, or to its end, in another (Resume).  A suspended call is      *)
(*   [kind, from, awaiting, trace]                                         *)
(* from: the currentStep the call was issued with; awaiting: the index of  *)
(* the record (nextStep / prevStep) whose shouldSkip it awaits; trace: the *)
(* indices whose shouldSkip it has seen resolve to true.                   *)

\* line 161
isValidIndexNext(seq, currentStepIndex) ==
    currentStepIndex >= 1 /\ currentStepIndex < Len(seq)

\* a test that takes the second record for the first
isValidIndexPrev_offByOne(seq, currentStepIndex) ==
    currentStepIndex > 2 /\ currentStepIndex <= Len(seq)

\* line 177; the indices are 1-based here
isValidIndexPrev(seq, currentStepIndex) ==
    currentStepIndex > 1 /\ currentStepIndex <= Len(seq)

\* line 178: _currentStep?.canGoBack, undefined for null
canGoBackOf_defined(step) == step # Null

canGoBackOf(step) == IF step = Null THEN FALSE ELSE step.canGoBack

\* line 179: if (isValidIndex && canGoBack)
MayGoBack_anyway(seq, step) == isValidIndexPrev(seq, IndexOfStep(seq, step))

MayGoBack(seq, step) ==
    isValidIndexPrev(seq, IndexOfStep(seq, step)) /\ canGoBackOf(step)

\* line 162: if (isValidIndex)
MayGoOn(seq, step) == isValidIndexNext(seq, IndexOfStep(seq, step))

\* whether a call of `kind` with _currentStep = step goes on to an await
Proceeds(kind, seq, step) ==
    IF kind = "next" THEN MayGoOn(seq, step) ELSE MayGoBack(seq, step)

\* lines 163 and 180: nextStep / prevStep, as an index of stepsSequence
Neighbour_stay(kind, seq, step) == IndexOfStep(seq, step)

Neighbour(kind, seq, step) ==
    IF kind = "next"
    THEN IndexOfStep(seq, step) + 1
    ELSE IndexOfStep(seq, step) - 1

\* lines 164 and 181: (await step.shouldSkip?.()) ?? false
ShouldSkip_never(step) == FALSE

ShouldSkip(step) == Eval(step.shouldSkip)

\* a call that waits for the suspended calls to end before it starts
Issue_exclusive(kind, room) ==
    /\ effect # "idle"
    /\ calls = <<>>
    /\ IF Proceeds(kind, stepsSequence, currentStep)
       THEN /\ calls' = <<[kind |-> kind, from |-> currentStep,
                           awaiting |-> Neighbour(kind, stepsSequence, currentStep),
                           trace |-> <<>>]>>
            /\ UNCHANGED last
       ELSE /\ last' = Completed(kind, currentStep, <<>>, 0)
            /\ UNCHANGED calls
    /\ UNCHANGED <<steps, initialStep, flag, stepsSequence, currentStep,
                   effect, firstStep>>

\* a call of goToNextStep() / goToPrevStep() with _currentStep = currentStep,
\* up to its first await (at most `room` calls are suspended at a time); a
\* call whose guard fails returns at once
Issue(kind, room) ==
    /\ effect # "idle"
    /\ IF Proceeds(kind, stepsSequence, currentStep)
       THEN /\ Len(calls) < room
            /\ calls' = Append(calls,
                   [kind |-> kind, from |-> currentStep,
                    awaiting |-> Neighbour(kind, stepsSequence, currentStep),
                    trace |-> <<>>])
            /\ UNCHANGED last
       ELSE /\ last' = Completed(kind, currentStep, <<>>, 0)
            /\ UNCHANGED calls
    /\ UNCHANGED <<steps, initialStep, flag, stepsSequence, currentStep,
                   effect, firstStep>>

\* at most MaxInFlight calls are suspended at a time
GoTo(kind) == Issue(kind, MaxInFlight)

GoToNextStep == GoTo("next")

GoToPrevStep == GoTo("prev")

Without(seq, i) == [j \in 1..(Len(seq) - 1) |-> IF j < i THEN seq[j] ELSE seq[j + 1]]

\* the awaited shouldSkip of call i resolves, with the value the predicate
\* has at that moment: lines 165-169 and 182-186
Resume(i) ==
    /\ i \in 1..Len(calls)
    /\ LET call == calls[i]
           step == stepsSequence[call.awaiting]
       IN  IF Raises(step.shouldSkip)
           THEN \* the await of line 164 / 181 raises: the call's promise, and
                \* that of every enclosing call awaiting it, is rejected
                /\ calls' = Without(calls, i)
                /\ last' = Rejected(call.kind, call.from, call.trace,
                                    call.awaiting)
                /\ UNCHANGED currentStep
           ELSE IF ShouldSkip(step)
           THEN \* await goToNextStep(nextStep) / await goToPrevStep(prevStep)
                IF Proceeds(call.kind, stepsSequence, step)
                THEN /\ Len(call.trace) < MaxTrace
                     /\ calls' = [calls EXCEPT ![i] =
                           [kind |-> call.kind, from |-> call.from,
                            awaiting |-> Neighbour(call.kind, stepsSequence, step),
                            trace |-> Append(call.trace, call.awaiting)]]
                     /\ UNCHANGED <<currentStep, last>>
                ELSE /\ calls' = Without(calls, i)
                     /\ last' = Completed(call.kind, call.from,
                                          Append(call.trace, call.awaiting), 0)
                     /\ UNCHANGED currentStep
           ELSE \* setCurrentStep(nextStep) / setCurrentStep(prevStep)
                /\ currentStep' = step
                /\ calls' = Without(calls, i)
                /\ last' = Completed(call.kind, call.from, call.trace,
                                     call.awaiting)
    /\ UNCHANGED <<steps, initialStep, flag, stepsSequence, effect, firstStep>>

\* the external state the "env" predicates read changes
Toggle ==
    /\ flag' = ~flag
    /\ UNCHANGED <<steps, initialStep, stepsSequence, currentStep, effect,
                   firstStep, calls, last>>

\* The hook's specification: shouldSkip that reads external state, or none,
\* and canGoBack set or not, on every step.
NavAttrs ==
    {Attr("absent", "absent", "undefined"), Attr("absent", "env", "undefined"),
     Attr("absent", "absent", "false"), Attr("absent", "env", "false")}

Init == InitWith(NavSteps, NavAttrs)

Next ==
    \/ Render
    \/ FirstStepResolved
    \/ GoToNextStep
    \/ GoToPrevStep
    \/ \E i \in 1..MaxInFlight : Resume(i)
    \/ Toggle

Spec == Init /\ [][Next]_vars

---------------------------------------------------------------------------
(* The resolver's specification: predicates that are set, or not, on every *)
(* step; canGoBack is left out (the resolver does not read it).            *)

FirstAttrs ==
    {Attr("absent", "absent", "undefined"), Attr("true", "absent", "undefined"),
     Attr("absent", "true", "undefined"), Attr("false", "false", "undefined")}

InitFirst == InitWith(FirstSteps, FirstAttrs)

NextFirst == Render \/ FirstStepResolved

SpecFirst == InitFirst /\ [][NextFirst]_vars

(* The flattener's specification: canGoBack set to true, to false or not   *)
(* set on every step; the start name is the default (the flattener does not *)
(* read it).                                                                *)

TreeAttrs ==
    {Attr("absent", "absent", "undefined"), Attr("absent", "absent", "true"),
     Attr("absent", "absent", "false")}

InitTree ==
    InitWith(TreeSteps, TreeAttrs) /\ initialStep = steps.initialStep

NextTree == Render

SpecTree == InitTree /\ [][NextTree]_vars

---------------------------------------------------------------------------
(* What the claims speak of: chains, leaves, containers *)

\* the names from `start` along next, in order
RECURSIVE NextChain(_, _)
NextChain(graph, start) ==
    IF ~HasKey(graph, start)
    THEN <<>>
    ELSE IF graph.steps[start].next = NULL
         THEN <<start>>
         ELSE <<start>> \o NextChain(graph, graph.steps[start].next)

OnChain(graph, start, name) ==
    \E i \in 1..Len(NextChain(graph, start)) : NextChain(graph, start)[i] = name

IsContainer(step) == step.childSteps # <<>>

\* isDone and shouldSkip are both false
Unfulfilled(step) == ~Eval(step.isDone) /\ ~Eval(step.shouldSkip)

\* every key of the graph and of the graphs nested in it, with its address
RECURSIVE AllSteps(_, _)
AllSteps(graph, prefix) ==
    UNION {{[address |-> prefix \o name, step |-> graph.steps[name]]}
           \cup (IF IsContainer(graph.steps[name])
                 THEN AllSteps(graph.steps[name].childSteps[1],
                               prefix \o name \o NAME_ADDRESS_DELIMITER)
                 ELSE {}) :
           name \in DOMAIN graph.steps}

IsContainerAddress(address) ==
    \E e \in AllSteps(steps, "") : e.address = address /\ IsContainer(e.step)

StepAt(address) ==
    (CHOOSE e \in AllSteps(steps, "") : e.address = address).step

\* the addresses of the leaves under the step `name` of `graph`
RECURSIVE LeavesUnder(_, _, _)
LeavesUnder(graph, name, prefix) ==
    IF IsContainer(graph.steps[name])
    THEN LET child == graph.steps[name].childSteps[1]
             chain == NextChain(child, child.initialStep)
         IN  UNION {LeavesUnder(child, chain[i],
                                prefix \o name \o NAME_ADDRESS_DELIMITER) :
                    i \in 1..Len(chain)}
    ELSE {prefix \o name}

\* the addresses of the leaves reachable from the root initialStep
ReachableLeaves(graph) ==
    LET chain == NextChain(graph, graph.initialStep)
    IN  UNION {LeavesUnder(graph, chain[i], "") : i \in 1..Len(chain)}

\* the graphs reachable from `graph` through childSteps, each with the
\* address prefix of its steps
RECURSIVE Occurrences(_, _)
Occurrences(graph, prefix) ==
    LET chain == NextChain(graph, graph.initialStep)
    IN  {[graph |-> graph, prefix |-> prefix]}
        \cup UNION {IF IsContainer(graph.steps[chain[i]])
                    THEN Occurrences(graph.steps[chain[i]].childSteps[1],
                           prefix \o chain[i] \o NAME_ADDRESS_DELIMITER)
                    ELSE {} :
                    i \in 1..Len(chain)}

Addresses(seq) == {seq[i].address : i \in 1..Len(seq)}

\* the first step of the chain from `start` with isDone and shouldSkip both
\* false, or else the last step of the chain
FirstUnfulfilled(graph, start) ==
    LET chain == NextChain(graph, start)
    IN  IF \E i \in 1..Len(chain) : Unfulfilled(graph.steps[chain[i]])
        THEN chain[CHOOSE i \in 1..Len(chain) :
                     /\ Unfulfilled(graph.steps[chain[i]])
                     /\ \A j \in 1..(i - 1) : ~Unfulfilled(graph.steps[chain[j]])]
        ELSE chain[Len(chain)]

\* level by level: the first unfulfilled step of each level's chain
RECURSIVE FirstUnfulfilledAddress(_, _)
FirstUnfulfilledAddress(graph, start) ==
    LET name == FirstUnfulfilled(graph, start)
        step == graph.steps[name]
    IN  IF Unfulfilled(step) /\ IsContainer(step)
        THEN name \o NAME_ADDRESS_DELIMITER
             \o FirstUnfulfilledAddress(step.childSteps[1],
                                        step.childSteps[1].initialStep)
        ELSE name

\* the steps the walk from `start` comes to, with their addresses
RECURSIVE Reached(_, _, _)
Reached(graph, start, prefix) ==
    LET chain == NextChain(graph, start)
        name == FirstUnfulfilled(graph, start)
        step == graph.steps[name]
        upTo == CHOOSE i \in 1..Len(chain) : chain[i] = name
    IN  {[address |-> prefix \o chain[i], step |-> graph.steps[chain[i]]] :
           i \in 1..upTo}
        \cup (IF Unfulfilled(step) /\ IsContainer(step)
              THEN Reached(step.childSteps[1], step.childSteps[1].initialStep,
                           prefix \o name \o NAME_ADDRESS_DELIMITER)
              ELSE {})

\* initialStep, and the initialStep of each nested graph while the step
\* come to is a container
RECURSIVE InitialPath(_)
InitialPath(graph) ==
    LET step == graph.steps[graph.initialStep]
    IN  IF IsContainer(step)
        THEN graph.initialStep \o NAME_ADDRESS_DELIMITER
             \o InitialPath(step.childSteps[1])
        ELSE graph.initialStep

---------------------------------------------------------------------------
(* Claims about calculateFirstStep, under SpecFirst *)

\* C1 as stated: whatever the start name, the address calculateFirstStep
\* returns is the address of a record of generateArrayFromTree(steps), unless
\* the step returned is a container.
C1_AnyStartInSequence ==
    effect = "resolved" =>
        \/ findIndex(stepsSequence, firstStep) # 0
        \/ IsContainerAddress(firstStep)

\* C1 amended: calculateFirstStep resolves (is never rejected) on these
\* graphs, and when the start name is graph.initialStep or a step on its next
\* chain, the address returned is the address of a record of
\* generateArrayFromTree(steps), unless the step returned is a container.
C1_FirstStepInSequence ==
    /\ effect # "rejected"
    /\ (effect = "resolved" /\ OnChain(steps, steps.initialStep, initialStep)) =>
          \/ findIndex(stepsSequence, firstStep) # 0
          \/ IsContainerAddress(firstStep)

\* a nested first step was found in the sequence, past a done step
C1_Witness ==
    /\ effect = "resolved"
    /\ initialStep = steps.initialStep
    /\ ~Unfulfilled(steps.steps[initialStep])
    /\ findIndex(stepsSequence, firstStep) > 1
    /\ \E e \in AllSteps(steps, "") : IsContainer(e.step) /\ Unfulfilled(e.step)
    /\ currentStep # Null /\ currentStep.address = firstStep

\* C2: the address returned names, at every level, the first step of the
\* level's next chain (from the given start at the top, from the child
\* graph's initialStep below) whose isDone and shouldSkip are both false, or
\* else the last step of that chain.
C2_FirstUnfulfilled ==
    effect = "resolved" => firstStep = FirstUnfulfilledAddress(steps, initialStep)

\* an explicit start that is done and has a next was passed over
C2_Witness ==
    /\ effect = "resolved"
    /\ initialStep # steps.initialStep
    /\ ~Unfulfilled(steps.steps[initialStep])
    /\ steps.steps[initialStep].next # NULL
    /\ firstStep # initialStep
    /\ firstStep = FirstUnfulfilledAddress(steps, initialStep)

\* C3: a step with no next whose isDone or shouldSkip is true, once the walk
\* comes to it, is the step returned: its address is the result.
C3_TerminalNotSkipped ==
    effect = "resolved" =>
        \A r \in Reached(steps, initialStep, "") :
            (r.step.next = NULL /\ ~Unfulfilled(r.step)) => firstStep = r.address

\* a skipped last step of a child graph is returned although its container
\* has a next sibling
C3_Witness ==
    /\ effect = "resolved"
    /\ \E r \in Reached(steps, initialStep, "") :
          /\ r.step.next = NULL /\ ~Unfulfilled(r.step)
          /\ firstStep = r.address
          /\ r.address # initialStep
          /\ \E c \in Reached(steps, initialStep, "") :
                /\ IsContainer(c.step) /\ c.step.next # NULL
                /\ r \in AllSteps(c.step.childSteps[1],
                                   c.address \o NAME_ADDRESS_DELIMITER)

\* C4: with no isDone or shouldSkip true anywhere, calculateFirstStep(steps)
\* is steps.initialStep followed by the initialStep of each nested graph
\* while the step come to is a container.
C4_NothingDone ==
    (/\ effect = "resolved"
     /\ initialStep = steps.initialStep
     /\ \A e \in AllSteps(steps, "") : Unfulfilled(e.step)) =>
        firstStep = InitialPath(steps)

\* nothing is done and the first step is a container
C4_Witness ==
    /\ effect = "resolved"
    /\ initialStep = steps.initialStep
    /\ \A e \in AllSteps(steps, "") : Unfulfilled(e.step)
    /\ IsContainer(steps.steps[initialStep])
    /\ steps.initialStep # "1"
    /\ firstStep = InitialPath(steps)

---------------------------------------------------------------------------
(* Claims about generateArrayFromTree, under SpecTree *)

C6_Preorder ==
    effect # "idle" =>
        \A o \in Occurrences(steps, "") :
            LET chain == NextChain(o.graph, o.graph.initialStep)
            IN  \A i, j \in 1..Len(chain) :
                    i < j =>
                      \A a \in LeavesUnder(o.graph, chain[i], o.prefix),
                         b \in LeavesUnder(o.graph, chain[j], o.prefix) :
                          /\ findIndex(stepsSequence, a) # 0
                          /\ findIndex(stepsSequence, a) < findIndex(stepsSequence, b)

\* a container with two leaves comes before its next sibling
C6_Witness ==
    /\ effect # "idle"
    /\ \E name \in DOMAIN steps.steps :
          /\ OnChain(steps, steps.initialStep, name)
          /\ IsContainer(steps.steps[name])
          /\ steps.steps[name].next # NULL
          /\ Cardinality(LeavesUnder(steps, name, "")) >= 2
          /\ \A a \in LeavesUnder(steps, name, "") :
                findIndex(stepsSequence, a)
                  < findIndex(stepsSequence, steps.steps[name].next)

---------------------------------------------------------------------------
(* Claims about goToNextStep and goToPrevStep, under Spec *)

InSequence(step) ==
    \E i \in 1..Len(stepsSequence) : stepsSequence[i] = step

AtLastRecord ==
    Len(stepsSequence) > 0 /\ currentStep = stepsSequence[Len(stepsSequence)]

AtFirstRecord ==
    Len(stepsSequence) > 0 /\ currentStep = stepsSequence[1]

\* nothing but the history of completed calls changes
NoOp ==
    UNCHANGED <<steps, initialStep, flag, stepsSequence, currentStep, effect,
                firstStep, calls>>

\* C8: goToNextStep at the last record or with a current step that is not in
\* the sequence, and goToPrevStep at the first record, with a current step
\* that is not in the sequence or whose canGoBack is false, can be called,
\* change nothing and await no shouldSkip (no call is left suspended), so
\* that calling again gives the same state; and once rendered, no step (so no
\* step of a navigation call) changes stepsSequence.
C8_BoundaryNoOp ==
    /\ [](effect # "idle" =>
            /\ (AtLastRecord \/ ~InSequence(currentStep)) => ENABLED GoToNextStep
            /\ (AtFirstRecord \/ ~InSequence(currentStep)
                  \/ ~currentStep.canGoBack) => ENABLED GoToPrevStep)
    /\ [][/\ ((AtLastRecord \/ ~InSequence(currentStep)) /\ GoToNextStep)
              => NoOp
          /\ ((\/ AtFirstRecord
                \/ ~InSequence(currentStep)
                \/ ~currentStep.canGoBack) /\ GoToPrevStep)
              => NoOp
          /\ effect # "idle" => stepsSequence' = stepsSequence]_vars

\* goToPrevStep was called on a record that is not the first and whose
\* canGoBack is false, and goToNextStep would now be a no-op at the last record
C8_Witness ==
    /\ last = Completed("prev", currentStep, <<>>, 0)
    /\ AtLastRecord
    /\ ~AtFirstRecord
    /\ ~currentStep.canGoBack
    /\ calls = <<>>

\* C9 as stated: a goToPrevStep call leaves the current step unchanged if and
\* only if the record it was issued on has canGoBack false.
C9_BlockedIffCannotGoBack ==
    (last.kind = "prev" /\ last.from # Null) =>
        (last.wrote = 0 <=> ~last.from.canGoBack)

\* the record the backward walk of the last call ended on, if it skipped any
LastSkipped == last.trace[Len(last.trace)]

\* C9 amended: a goToPrevStep call issued on a record whose canGoBack is
\* false leaves the current step unchanged, whatever the record's position;
\* a call issued on a record whose canGoBack is true leaves it unchanged
\* exactly when that record is the first one or the backward walk ends on a
\* skipped record that is the first record or has canGoBack false.
C9_BlockedWhenCannotGoBack ==
    (last.kind = "prev" /\ last.from # Null) =>
        (last.wrote = 0 <=>
            \/ ~last.from.canGoBack
            \/ IndexOfStep(stepsSequence, last.from) = 1
            \/ /\ last.trace # <<>>
               /\ \/ LastSkipped = 1
                  \/ ~stepsSequence[LastSkipped].canGoBack)

\* a call on a later record whose canGoBack is false, with a record before it
\* that has no shouldSkip, changed nothing
C9_Witness ==
    /\ last.kind = "prev"
    /\ last.from # Null
    /\ ~last.from.canGoBack
    /\ IndexOfStep(stepsSequence, last.from) >= 2
    /\ stepsSequence[IndexOfStep(stepsSequence, last.from) - 1].shouldSkip = "absent"
    /\ last.wrote = 0
    /\ currentStep = last.from

\* the direction of a call, as a step of the index
Direction(kind) == IF kind = "next" THEN 1 ELSE -1

\* the last index in the direction of a call
Boundary(kind) == IF kind = "next" THEN Len(stepsSequence) ELSE 1

\* the completed call awaited some shouldSkip
Walked == last.kind \in {"next", "prev"} /\ (last.trace # <<>> \/ last.wrote # 0)

\* the records whose shouldSkip resolved true are the consecutive ones from
\* the record next to the starting one, and a record written is the one right
\* after them and none of them
SkippedInOrder ==
    LET from == IndexOfStep(stepsSequence, last.from)
        n == Len(last.trace)
    IN  /\ \A k \in 1..n : last.trace[k] = from + Direction(last.kind) * k
        /\ last.wrote # 0 =>
              /\ last.wrote = from + Direction(last.kind) * (n + 1)
              /\ \A k \in 1..n : last.trace[k] # last.wrote

\* C10 as stated: a call that awaited some shouldSkip ends on the nearest
\* record in its direction whose shouldSkip resolved false, and leaves the
\* current step as it was only if every record up to the boundary resolved
\* true.
C10_StopsOnlyAtBoundary ==
    Walked =>
        /\ SkippedInOrder
        /\ last.wrote = 0 => LastSkipped = Boundary(last.kind)

\* C10 amended: a call skips every record whose shouldSkip resolves true and
\* ends on the nearest record in its direction whose shouldSkip resolved
\* false; it never makes current a record whose shouldSkip it saw resolve
\* true; it leaves the current step as it was when every record up to the
\* boundary resolved true, and goToPrevStep does so too when a record it
\* skipped has canGoBack false.
C10_SkipsToNearest ==
    /\ [](Walked =>
            /\ SkippedInOrder
            /\ last.wrote = 0 =>
                  \/ LastSkipped = Boundary(last.kind)
                  \/ /\ last.kind = "prev"
                     /\ ~stepsSequence[LastSkipped].canGoBack)
    /\ [][\A i \in 1..Len(calls) :
            Resume(i) =>
              IF Eval(stepsSequence[calls[i].awaiting].shouldSkip)
              THEN currentStep' = currentStep
              ELSE currentStep' = stepsSequence[calls[i].awaiting]]_vars

\* a goToNextStep call skipped a record whose canGoBack is false and ended on
\* the last record, whose shouldSkip (one that reads external state) resolved
\* false
C10_Witness ==
    /\ last.kind = "next"
    /\ Len(last.trace) >= 1
    /\ last.wrote = Len(stepsSequence)
    /\ currentStep = stepsSequence[last.wrote]
    /\ stepsSequence[last.wrote].shouldSkip = "env"
    /\ ~stepsSequence[last.trace[1]].canGoBack

---------------------------------------------------------------------------
(* Claims about skipped steps and the gates of a walk, under Spec *)

\* every leaf of the graph with its address and the shouldSkip fields of the
\* containers that enclose it
RECURSIVE Enclosed(_, _, _)
Enclosed(graph, prefix, containers) ==
    UNION {IF IsContainer(graph.steps[name])
           THEN Enclosed(graph.steps[name].childSteps[1],
                         prefix \o name \o NAME_ADDRESS_DELIMITER,
                         containers \cup {graph.steps[name].shouldSkip})
           ELSE {[address |-> prefix \o name, containers |-> containers]} :
           name \in DOMAIN graph.steps}

\* some container around the leaf at `address` has a shouldSkip that is true
InsideSkipped(address) ==
    \E e \in Enclosed(steps, "", {}) :
        e.address = address /\ \E pred \in e.containers : Eval(pred)

\* call i stops awaiting and gives the awaited record to setCurrentStep
Writes(i) == Resume(i) /\ ~ShouldSkip(stepsSequence[calls[i].awaiting])

\* C11: the record a goToNextStep or goToPrevStep call makes current is, at
\* that moment, neither a leaf whose own shouldSkip is true nor a leaf of a
\* container whose shouldSkip is true.
C11_SkippedNeverCurrent ==
    [][\A i \in 1..Len(calls) :
         Writes(i) =>
           /\ ~Eval(currentStep'.shouldSkip)
           /\ ~InsideSkipped(currentStep'.address)]_vars

---------------------------------------------------------------------------
(* Missing-step references: graphs in which a name referred to by a next,  *)
(* by an initialStep or by the start name is not a key                     *)

\* the graph without the key `name`; what referred to it refers to nothing
Drop(graph, name) ==
    [initialStep |-> graph.initialStep,
     steps |-> [k \in DOMAIN graph.steps \ {name} |-> graph.steps[k]]]

\* the graphs got from `graph` by taking one key away, at any level
RECURSIVE Dropped(_)
Dropped(graph) ==
    {Drop(graph, name) : name \in DOMAIN graph.steps}
    \cup UNION {IF IsContainer(graph.steps[name])
                THEN {[graph EXCEPT !.steps[name].childSteps = <<child>>] :
                        child \in Dropped(graph.steps[name].childSteps[1])}
                ELSE {} :
                name \in DOMAIN graph.steps}

\* useStepper is about to be called with a graph that lacks one key and with
\* a start name that is a key or the name of the key that was taken away
InitRefs ==
    /\ \E w \in 1..FirstSteps :
         \E chain \in ChainsOf(w, FirstAttrs) :
           \E first \in 1..Len(chain) :
             /\ steps \in Dropped(MkGraph(chain, first))
             /\ initialStep \in DOMAIN MkGraph(chain, first).steps
    /\ flag = FALSE
    /\ stepsSequence = <<>>
    /\ currentStep = Null
    /\ effect = "idle"
    /\ firstStep = ""
    /\ calls = <<>>
    /\ last = Completed("none", Null, <<>>, 0)

SpecRefs == InitRefs /\ [][NextFirst]_vars

\* the traversal of generateArrayFromTree from `start` comes to a name that
\* is not a key of its graph
RECURSIVE TraversalMeetsMissing(_, _)
TraversalMeetsMissing(graph, start) ==
    IF ~HasKey(graph, start)
    THEN TRUE
    ELSE LET step == graph.steps[start]
         IN  \/ /\ IsContainer(step)
                /\ TraversalMeetsMissing(step.childSteps[1],
                                         step.childSteps[1].initialStep)
             \/ /\ step.next # NULL
                /\ TraversalMeetsMissing(graph, step.next)

\* the walk of calculateFirstStep from `start` comes to a name that is not a
\* key of its graph
RECURSIVE WalkMeetsMissing(_, _)
WalkMeetsMissing(graph, start) ==
    IF ~HasKey(graph, start)
    THEN TRUE
    ELSE LET step == graph.steps[start]
         IN  IF ~Unfulfilled(step)
             THEN step.next # NULL /\ WalkMeetsMissing(graph, step.next)
             ELSE /\ IsContainer(step)
                  /\ WalkMeetsMissing(step.childSteps[1],
                                      step.childSteps[1].initialStep)

\* C12: a name that is not a key of its graph, met by calculateFirstStep or
\* by generateArrayFromTree, makes that function fail: the promise of
\* calculateFirstStep is rejected, and generateArrayFromTree gives a failure
\* and no sequence that simply ends where the name is missing.
C12_MissingStepFails ==
    /\ (effect \in {"resolved", "rejected"}
          /\ WalkMeetsMissing(steps, initialStep)) => effect = "rejected"
    /\ (effect # "idle"
          /\ TraversalMeetsMissing(steps, steps.initialStep)) =>
            stepsSequence = Failure

---------------------------------------------------------------------------
(* Predicates that raise: the hook on graphs whose isDone or shouldSkip    *)
(* may raise or reject when awaited                                        *)

ThrowAttrs ==
    {Attr("absent", "absent", "undefined"), Attr("absent", "true", "undefined"),
     Attr("absent", "throws", "undefined"), Attr("throws", "absent", "undefined")}

InitThrow == InitWith(NavSteps, ThrowAttrs)

\* the hook while the external state does not change
NextHook ==
    \/ Render
    \/ FirstStepResolved
    \/ GoToNextStep
    \/ GoToPrevStep
    \/ \E i \in 1..MaxInFlight : Resume(i)

SpecThrow == InitThrow /\ [][NextHook]_vars

\* the predicates calculateFirstStep awaits, in the order it awaits them
\* (lines 77 and 78 at every step of the walk; a field that is not set is
\* not called), up to the one that raises
RECURSIVE Evaluated(_, _, _)
Evaluated(graph, start, prefix) ==
    IF ~HasKey(graph, start)
    THEN <<>>
    ELSE
      LET step == graph.steps[start]
          isDone == IF step.isDone = "absent" THEN <<>>
                    ELSE <<[address |-> prefix \o start, pred |-> step.isDone]>>
          shouldSkip == IF step.shouldSkip = "absent" THEN <<>>
                        ELSE <<[address |-> prefix \o start,
                                pred |-> step.shouldSkip]>>
      IN  IF Raises(step.isDone)
          THEN isDone
          ELSE IF Raises(step.shouldSkip)
          THEN isDone \o shouldSkip
          ELSE isDone \o shouldSkip \o
               (IF MoveOn(Eval(step.isDone), Eval(step.shouldSkip))
                THEN IF step.next # NULL
                     THEN Evaluated(graph, step.next, prefix)
                     ELSE <<>>
                ELSE IF Descends(step)
                     THEN Evaluated(step.childSteps[1],
                                    DefaultStart(step.childSteps[1]),
                                    prefix \o start \o NAME_ADDRESS_DELIMITER)
                     ELSE <<>>)

\* the call that ended last was rejected by a predicate
LastRejected == "failed" \in DOMAIN last

\* C13: when an isDone or shouldSkip predicate raises during
\* calculateFirstStep, the promise is rejected, the raising predicate is the
\* last one evaluated and the current step stays unset; when the shouldSkip
\* awaited by a goToNextStep or goToPrevStep call raises, the call ends
\* there, rejected: it had so far evaluated the records next to its start, in
\* order, each resolving true, it evaluates no further record, it is not
\* started again and it leaves the current step as it was.
C13_PredicateFailureEnds ==
    /\ [](effect \in {"resolved", "rejected"} =>
            LET ev == Evaluated(steps, initialStep, "")
            IN  /\ effect = "rejected" <=>
                     (ev # <<>> /\ Raises(ev[Len(ev)].pred))
                /\ effect = "rejected" => (currentStep = Null /\ firstStep = ""))
    /\ [](LastRejected =>
            /\ Raises(stepsSequence[last.failed].shouldSkip)
            /\ SkippedInOrder
            /\ last.failed = IndexOfStep(stepsSequence, last.from)
                               + Direction(last.kind) * (Len(last.trace) + 1)
            /\ \A k \in 1..Len(last.trace) :
                  ~Raises(stepsSequence[last.trace[k]].shouldSkip))
    /\ [][\A i \in 1..Len(calls) :
            (Resume(i) /\ stepsSequence[calls[i].awaiting].shouldSkip = "throws")
              => /\ currentStep' = currentStep
                 /\ calls' = Without(calls, i)
                 /\ last' = Rejected(calls[i].kind, calls[i].from,
                                     calls[i].trace, calls[i].awaiting)]_vars

\* a goToPrevStep call skipped a record and was rejected by the shouldSkip of
\* the record before it; the current step is the record it was issued on
C13_Witness ==
    /\ LastRejected
    /\ last.kind = "prev"
    /\ Len(last.trace) >= 1
    /\ last.failed = last.trace[1] - 1
    /\ currentStep = last.from
    /\ calls = <<>>

---------------------------------------------------------------------------
(* Step names that contain the delimiter: graphs in which one key of the   *)
(* root graph is a name written with '/'                                   *)

\* the names with a '/' that the graphs below use
SlashNames ==
    {a \o NAME_ADDRESS_DELIMITER \o b : a \in {"1", "2"}, b \in {"1", "2"}}

HasDelimiter(name) == name \in SlashNames

\* the graph with the key `old` named `new` instead, in the keys, in the
\* next fields and in initialStep
Renamed(graph, old, new) ==
    [initialStep |-> IF graph.initialStep = old THEN new ELSE graph.initialStep,
     steps |-> [k \in (DOMAIN graph.steps \ {old}) \cup {new} |->
                  LET step == graph.steps[IF k = new THEN old ELSE k]
                  IN  [step EXCEPT !.next = IF @ = old THEN new ELSE @]]]

\* the graph itself and the graphs with one root key named with a '/'
RenamedOnce(graph) ==
    {graph} \cup {Renamed(graph, old, new) :
                    old \in DOMAIN graph.steps, new \in SlashNames}

\* the keys of the graph and of the graphs nested in it
RECURSIVE Names(_)
Names(graph) ==
    DOMAIN graph.steps
    \cup UNION {IF IsContainer(graph.steps[name])
                THEN Names(graph.steps[name].childSteps[1])
                ELSE {} :
                name \in DOMAIN graph.steps}

\* useStepper has not been called yet
Fresh ==
    /\ flag = FALSE
    /\ stepsSequence = <<>>
    /\ currentStep = Null
    /\ effect = "idle"
    /\ firstStep = ""
    /\ calls = <<>>
    /\ last = Completed("none", Null, <<>>, 0)

\* the flattener on graphs with and without a '/' in a name
InitAddr ==
    /\ \E w \in 1..TreeSteps :
         \E chain \in ChainsOf(w, {Attr("absent", "absent", "undefined")}) :
           \E first \in 1..Len(chain) :
             steps \in RenamedOnce(MkGraph(chain, first))
    /\ initialStep = steps.initialStep
    /\ Fresh

SpecAddr == InitAddr /\ [][NextTree]_vars

\* no two records have the same address
DistinctAddresses(seq) ==
    \A i, j \in 1..Len(seq) : seq[i].address = seq[j].address => i = j

\* C19: when no step name contains '/', the records of
\* generateArrayFromTree have pairwise distinct addresses, also when two
\* containers have the same child graph, and the lookup by address that
\* findStepByAddress, goToNextStep and goToPrevStep do finds, for every
\* record, that record's own index.
C19_DistinctAddresses ==
    (effect # "idle" /\ \A name \in Names(steps) : ~HasDelimiter(name)) =>
        /\ DistinctAddresses(stepsSequence)
        /\ \A i \in 1..Len(stepsSequence) :
              /\ findIndex(stepsSequence, stepsSequence[i].address) = i
              /\ findStepByAddress(stepsSequence, stepsSequence[i].address)
                   = stepsSequence[i]

\* two containers of the root chain have the same child graph, and each gave
\* its records
C19_Witness ==
    /\ effect # "idle"
    /\ \A name \in Names(steps) : ~HasDelimiter(name)
    /\ \E a, b \in DOMAIN steps.steps :
          /\ a # b
          /\ IsContainer(steps.steps[a]) /\ IsContainer(steps.steps[b])
          /\ steps.steps[a].childSteps = steps.steps[b].childSteps
          /\ OnChain(steps, steps.initialStep, a)
          /\ OnChain(steps, steps.initialStep, b)
    /\ Len(stepsSequence) >= 2
    /\ DistinctAddresses(stepsSequence)

---------------------------------------------------------------------------
(* The order of a walk, on graphs with and without a '/' in a name *)

SkipAttrs ==
    {Attr("absent", "absent", "undefined"), Attr("absent", "true", "undefined")}

InitNames ==
    /\ \E w \in 1..NavSteps :
         \E chain \in ChainsOf(w, SkipAttrs) :
           \E first \in 1..Len(chain) :
             steps \in RenamedOnce(MkGraph(chain, first))
    /\ initialStep = steps.initialStep
    /\ Fresh

SpecNames == InitNames /\ [][NextHook]_vars

\* the indices whose shouldSkip a suspended call has awaited, in order, the
\* one it is awaiting included
Awaited(call) == Append(call.trace, call.awaiting)

\* the indices whose shouldSkip the call that ended last awaited, in order
LastAwaited ==
    IF LastRejected THEN Append(last.trace, last.failed)
    ELSE IF last.wrote # 0 THEN Append(last.trace, last.wrote)
    ELSE last.trace

\* a call of `kind` issued on `from` has awaited the records `ev`: they are
\* the records next to `from` in the call's direction, one after the other,
\* and at most all the records but one
InOrder(kind, from, ev) ==
    /\ \A k \in 1..Len(ev) :
          /\ ev[k] = IndexOfStep(stepsSequence, from) + Direction(kind) * k
          /\ ev[k] \in 1..Len(stepsSequence)
    /\ Len(ev) <= Len(stepsSequence) - 1

\* a call goes on to await another record only when the shouldSkip it
\* awaited resolved true, and that record is then one it has passed
AwaitsOneByOne ==
    \A i \in 1..Len(calls) :
        (Resume(i) /\ Len(calls') = Len(calls)) =>
            /\ ShouldSkip(stepsSequence[calls[i].awaiting])
            /\ calls'[i].trace = Append(calls[i].trace, calls[i].awaiting)
            /\ calls'[i].from = calls[i].from

EveryCallInOrder ==
    /\ \A i \in 1..Len(calls) :
          InOrder(calls[i].kind, calls[i].from, Awaited(calls[i]))
    /\ last.kind \in {"next", "prev"} =>
          InOrder(last.kind, last.from, LastAwaited)

\* C14 as stated: whatever the graph, a call issued at index i awaits the
\* shouldSkip of the records i+1, i+2, ... (i-1, i-2, ... for goToPrevStep)
\* one at a time, each after the one before resolved true, no record twice,
\* never the starting record, and at most (sequence length - 1) of them.
C14_InOrderAlways ==
    [](EveryCallInOrder) /\ [][AwaitsOneByOne]_vars

\* C14 amended: the same, when the addresses of the records are pairwise
\* distinct.
C14_InOrderWhenDistinct ==
    /\ [](DistinctAddresses(stepsSequence) => EveryCallInOrder)
    /\ [][AwaitsOneByOne]_vars

\* a goToPrevStep call issued on the last of three or more records with
\* distinct addresses, one of them named with a '/', awaited every other
\* record down to the first and ended there
C14_Witness ==
    /\ DistinctAddresses(stepsSequence)
    /\ \E name \in Names(steps) : HasDelimiter(name)
    /\ Len(stepsSequence) >= 3
    /\ last.kind = "prev"
    /\ IndexOfStep(stepsSequence, last.from) = Len(stepsSequence)
    /\ Len(LastAwaited) = Len(stepsSequence) - 1
    /\ LastAwaited[Len(LastAwaited)] = 1

---------------------------------------------------------------------------
(* Overlapping calls: the hook when a call may be issued while others are  *)
(* suspended                                                               *)

\* navigation calls that may be suspended at the same time when they overlap
MaxOverlap == 2

GoToNextStepOverlapping == Issue("next", MaxOverlap)

GoToPrevStepOverlapping == Issue("prev", MaxOverlap)

OverlapAttrs ==
    {Attr("absent", "absent", "undefined"), Attr("absent", "env", "undefined")}

\* the start name is the default
InitOverlap ==
    InitWith(NavSteps, OverlapAttrs) /\ initialStep = steps.initialStep

NextOverlap ==
    \/ Render
    \/ FirstStepResolved
    \/ GoToNextStepOverlapping
    \/ GoToPrevStepOverlapping
    \/ \E i \in 1..MaxOverlap : Resume(i)
    \/ Toggle

SpecOverlap == InitOverlap /\ [][NextOverlap]_vars

\* C15: calls that overlap are neither put in a queue nor cancelled: a call
\* can be issued while another is suspended and leaves the suspended ones as
\* they are; every suspended call keeps the current step it was issued on and
\* walks from it; a call whose shouldSkip resolves false writes its own
\* record whatever the current step has become meanwhile and ends without
\* touching the other calls, so that the current step is the write of the
\* call that completed last; and the current step is always unset or a
\* record of the flattened sequence.
C15_OverlappingCalls ==
    /\ [](/\ currentStep = Null \/ InSequence(currentStep)
          /\ \A i \in 1..Len(calls) :
                /\ InSequence(calls[i].from)
                /\ InOrder(calls[i].kind, calls[i].from, Awaited(calls[i]))
          /\ (calls # <<>> /\ Len(calls) < MaxOverlap) =>
                (ENABLED GoToNextStepOverlapping
                   /\ ENABLED GoToPrevStepOverlapping))
    /\ [][/\ Len(calls') > Len(calls) =>
                \A j \in 1..Len(calls) : calls'[j] = calls[j]
          /\ Len(calls') < Len(calls) =>
                \A i \in 1..Len(calls) :
                   Writes(i) =>
                     /\ currentStep' = stepsSequence[calls[i].awaiting]
                     /\ last' = Completed(calls[i].kind, calls[i].from,
                                          calls[i].trace, calls[i].awaiting)
          /\ (Len(calls') <= Len(calls) /\ calls' # calls) =>
                /\ Len(calls') >= Len(calls) - 1
                /\ \E i \in 1..Len(calls) :
                      \A j \in 1..Len(calls) :
                         j # i =>
                           calls'[IF Len(calls') < Len(calls) /\ j > i
                                  THEN j - 1 ELSE j] = calls[j]]_vars

\* two goToNextStep calls were issued on the same record; one skipped the
\* record after it and wrote a further one, which is current now; the other
\* is still suspended on the record that one skipped, whose shouldSkip would
\* now resolve false, so that it will write over the current step
C15_Witness ==
    /\ Len(calls) = 1
    /\ calls[1].kind = "next" /\ last.kind = "next"
    /\ calls[1].from = last.from
    /\ calls[1].trace = <<>>
    /\ last.trace = <<calls[1].awaiting>>
    /\ last.wrote # 0
    /\ currentStep = stepsSequence[last.wrote]
    /\ currentStep # calls[1].from
    /\ ~ShouldSkip(stepsSequence[calls[1].awaiting])

---------------------------------------------------------------------------
(* Claims about the backward gate, isLoading and calls before the first    *)
(* step is known, under Spec                                               *)

\* line 191: isLoading: !currentStep
isLoading == currentStep = Null

\* C16: goToPrevStep applies the canGoBack gate to every record it walks
\* back from, a skipped one included: the records a suspended goToPrevStep
\* has skipped all have canGoBack true, as has the record it was issued on,
\* and when the shouldSkip of the record it awaits resolves true and that
\* record has canGoBack false, the call ends there and writes nothing,
\* whatever lies further back.
C16_GateOnSkippedRecord ==
    /\ [](/\ \A i \in 1..Len(calls) :
                calls[i].kind = "prev" =>
                  /\ calls[i].from.canGoBack
                  /\ \A k \in 1..Len(calls[i].trace) :
                        stepsSequence[calls[i].trace[k]].canGoBack
          /\ (last.kind = "prev" /\ last.trace # <<>>) =>
                /\ last.from.canGoBack
                /\ \A k \in 1..(Len(last.trace) - 1) :
                      stepsSequence[last.trace[k]].canGoBack
                /\ ~stepsSequence[LastSkipped].canGoBack => last.wrote = 0)
    /\ [][Len(calls') < Len(calls) =>
            \A i \in 1..Len(calls) :
               (/\ calls[i].kind = "prev"
                /\ ShouldSkip(stepsSequence[calls[i].awaiting])
                /\ ~stepsSequence[calls[i].awaiting].canGoBack
                /\ Resume(i)) =>
                  /\ currentStep' = currentStep
                  /\ last' = Completed("prev", calls[i].from,
                                       Append(calls[i].trace, calls[i].awaiting), 0)]_vars

\* goToPrevStep was issued on a record with canGoBack true, the record before
\* it resolved shouldSkip true and has canGoBack false, and the call ended
\* with the current step unchanged although the record before that one has
\* no shouldSkip
C16_Witness ==
    /\ last.kind = "prev"
    /\ last.from # Null
    /\ last.from.canGoBack
    /\ Len(last.trace) = 1
    /\ ~stepsSequence[LastSkipped].canGoBack
    /\ LastSkipped > 1
    /\ stepsSequence[LastSkipped - 1].shouldSkip = "absent"
    /\ last.wrote = 0
    /\ currentStep = last.from
    /\ calls = <<>>

\* C17 as stated: isLoading is true until the promise of calculateFirstStep
\* is resolved; once it is resolved isLoading is false, and until a
\* navigation call completes currentStep is the record whose address the
\* resolver returned.
C17_LoadedOnceResolved ==
    /\ effect \in {"idle", "pending"} => isLoading
    /\ effect = "resolved" => ~isLoading
    /\ (effect = "resolved" /\ last.kind = "none" /\ calls = <<>>) =>
          (~isLoading /\ currentStep.address = firstStep)

\* C17 amended: isLoading is true until the promise of calculateFirstStep is
\* resolved; it is false from then on exactly when the address resolved with
\* is the address of a record, and currentStep is then that record until a
\* navigation call writes; when the address is that of no record (a
\* container, or a step that steps.initialStep does not lead to) or the
\* promise is rejected, currentStep stays null and isLoading true; once
\* false, isLoading is never true again.
C17_LoadedWhenRecordFound ==
    /\ [](isLoading <=>
            ~(effect = "resolved" /\ findIndex(stepsSequence, firstStep) # 0))
    /\ []((~isLoading /\ last.kind = "none" /\ calls = <<>>) =>
            (InSequence(currentStep) /\ currentStep.address = firstStep))
    /\ [][~isLoading => ~isLoading']_vars

\* the first step was found, a navigation call has since moved the current
\* step, and isLoading is false
C17_Witness ==
    /\ effect = "resolved"
    /\ ~isLoading
    /\ last.wrote # 0
    /\ currentStep = stepsSequence[last.wrote]
    /\ currentStep.address # firstStep
    /\ findIndex(stepsSequence, firstStep) # 0

\* C18: while currentStep is not set, goToNextStep and goToPrevStep can be
\* called, return at once, change nothing and await no shouldSkip (no call
\* is ever suspended, and a call issued then has evaluated and written
\* nothing); the step that sets currentStep for the first time is the
\* resolution of calculateFirstStep, with the record of the address it
\* returned.
C18_NothingBeforeFirstStep ==
    /\ [](/\ isLoading => calls = <<>>
          /\ (last.kind # "none" /\ last.from = Null) =>
                (last.trace = <<>> /\ last.wrote = 0)
          /\ (isLoading /\ effect # "idle") =>
                (ENABLED GoToNextStep /\ ENABLED GoToPrevStep))
    /\ [][isLoading =>
            /\ (GoToNextStep \/ GoToPrevStep) => NoOp
            /\ ~isLoading' =>
                 /\ effect = "pending" /\ effect' = "resolved"
                 /\ currentStep' = findStepByAddress(stepsSequence, firstStep')
                 /\ currentStep'.address = firstStep']_vars

\* goToPrevStep was called while the resolution was pending and did nothing;
\* the resolution then set the current step, which nothing has changed since
C18_Witness ==
    /\ last = Completed("prev", Null, <<>>, 0)
    /\ effect = "resolved"
    /\ ~isLoading
    /\ currentStep.address = firstStep
    /\ calls = <<>>

---------------------------------------------------------------------------
(* Round trips: the hook on graphs whose shouldSkip gives the same value   *)
(* every time                                                              *)

SteadyAttrs ==
    {Attr("absent", "absent", "undefined"), Attr("absent", "true", "undefined"),
     Attr("absent", "absent", "false"), Attr("absent", "true", "false")}

InitSteady == InitWith(NavSteps, SteadyAttrs)

SpecSteady == InitSteady /\ [][NextHook]_vars

\* the one suspended call, of kind `back`, ends in this step; it was issued
\* on the record that the call that ended last, of kind `forth`, had moved
\* to from a record whose shouldSkip is false
ComesBack(forth, back) ==
    /\ Len(calls) = 1
    /\ Len(calls') = 0
    /\ calls[1].kind = back
    /\ last.kind = forth
    /\ last.wrote # 0
    /\ calls[1].from = stepsSequence[last.wrote]
    /\ ~Eval(last.from.shouldSkip)
    /\ Resume(1)

====
